---- MODULE Spec2Model ----
(***************************************************************************)
(* Model of src/Portfolio_Exercise.py: class Stock (a holding bound to a   *)
(* price table) and class Portfolio (target allocation, held quantities,   *)
(* add / remove / zero operations and the rebalance computation).          *)
(*                                                                         *)
(* Python evaluates every expression dynamically, so each step that can    *)
(* raise is modelled with the exception it raises: calling a value that is *)
(* not callable is a TypeError, a missing dict key a KeyError, a missing   *)
(* attribute an AttributeError, a Decimal division by zero a               *)
(* DivisionByZero or InvalidOperation.                                     *)
(***************************************************************************)
EXTENDS Integers, Sequences, FiniteSets, TLC

(***************************************************************************)
(* decimal.Decimal under the default context: every arithmetic result is   *)
(* the exact result rounded half-even to Prec significant digits.          *)
(* A value is [neg, c, e]: sign, coefficient as a sequence of decimal      *)
(* digits with the least significant digit first, and exponent, so the     *)
(* value is (+/-) c * 10^e.  Values are kept in the canonical form of      *)
(* their number (no zero digit at either end of c; zero is <<>> with       *)
(* e = 0), so that = on values is Decimal's numeric ==.                    *)
(***************************************************************************)
Prec == 28

RECURSIVE StripHi(_)
StripHi(c) ==
    IF c = <<>> THEN <<>>
    ELSE IF c[Len(c)] = 0 THEN StripHi(SubSeq(c, 1, Len(c) - 1))
    ELSE c

RECURSIVE LowZeros(_)
LowZeros(c) ==
    IF c = <<>> THEN 0
    ELSE IF Head(c) = 0 THEN 1 + LowZeros(Tail(c))
    ELSE 0

Zeros(n) == [i \in 1..n |-> 0]

DZero == [neg |-> FALSE, c |-> <<>>, e |-> 0]

Canon(neg, c, e) ==
    LET h == StripHi(c)
        z == LowZeros(h)
    IN  IF h = <<>> THEN DZero
        ELSE [neg |-> neg, c |-> SubSeq(h, z + 1, Len(h)), e |-> e + z]

RECURSIVE AddC(_, _, _)
AddC(a, b, carry) ==
    IF a = <<>> /\ b = <<>>
    THEN IF carry = 0 THEN <<>> ELSE <<carry>>
    ELSE LET x == IF a = <<>> THEN 0 ELSE Head(a)
             y == IF b = <<>> THEN 0 ELSE Head(b)
             s == x + y + carry
         IN  <<s % 10>> \o AddC(IF a = <<>> THEN <<>> ELSE Tail(a),
                                IF b = <<>> THEN <<>> ELSE Tail(b),
                                s \div 10)

BigAdd(a, b) == AddC(a, b, 0)

\* a - b for coefficients with a >= b
RECURSIVE SubC(_, _, _)
SubC(a, b, borrow) ==
    IF a = <<>> THEN <<>>
    ELSE LET y == IF b = <<>> THEN 0 ELSE Head(b)
             d == Head(a) - y - borrow
         IN  <<IF d < 0 THEN d + 10 ELSE d>>
             \o SubC(Tail(a), IF b = <<>> THEN <<>> ELSE Tail(b),
                     IF d < 0 THEN 1 ELSE 0)

BigSub(a, b) == StripHi(SubC(a, b, 0))

\* -1, 0, 1 as a < b, a = b, a > b, for coefficients without high zeros
RECURSIVE CmpFromHigh(_, _, _)
CmpFromHigh(a, b, i) ==
    IF i = 0 THEN 0
    ELSE IF a[i] < b[i] THEN -1
    ELSE IF a[i] > b[i] THEN 1
    ELSE CmpFromHigh(a, b, i - 1)

BigCmp(a, b) ==
    IF Len(a) < Len(b) THEN -1
    ELSE IF Len(a) > Len(b) THEN 1
    ELSE CmpFromHigh(a, b, Len(a))

RECURSIVE MulDigit(_, _, _)
MulDigit(a, k, carry) ==
    IF a = <<>>
    THEN IF carry = 0 THEN <<>> ELSE <<carry>>
    ELSE LET s == Head(a) * k + carry
         IN  <<s % 10>> \o MulDigit(Tail(a), k, s \div 10)

\* schoolbook product, one digit of b at a time from its high end
RECURSIVE MulAcc(_, _, _, _)
MulAcc(a, b, i, acc) ==
    IF i = 0 THEN acc
    ELSE LET acc2 == BigAdd(MulDigit(a, b[i], 0), <<0>> \o acc)
         IN  IF Len(acc2) >= 0 THEN MulAcc(a, b, i - 1, acc2) ELSE <<>>

BigMul(a, b) ==
    IF a = <<>> \/ b = <<>> THEN <<>>
    ELSE StripHi(MulAcc(a, b, Len(b), <<>>))

\* the largest digit k with d * k <= r
RECURSIVE QuotDigit(_, _, _)
QuotDigit(r, d, k) ==
    IF BigCmp(StripHi(MulDigit(d, k, 0)), r) <= 0 THEN k
    ELSE QuotDigit(r, d, k - 1)

\* long division of n by d (d # 0), taking the digits of n from position i down:
\* [q, r] with n = q * d + r
RECURSIVE DivStep(_, _, _, _, _)
DivStep(n, d, i, q, r) ==
    IF i = 0 THEN [q |-> StripHi(q), r |-> r]
    ELSE LET r1 == StripHi(<<n[i]>> \o r)
             k  == QuotDigit(r1, d, 9)
             r2 == BigSub(r1, StripHi(MulDigit(d, k, 0)))
             q2 == <<k>> \o q
         IN  IF Len(q2) + Len(r2) >= 0 THEN DivStep(n, d, i - 1, q2, r2)
             ELSE [q |-> <<>>, r |-> <<>>]

RECURSIVE NatDigits(_)
NatDigits(n) == IF n = 0 THEN <<>> ELSE <<n % 10>> \o NatDigits(n \div 10)

RECURSIVE ToNat(_)
ToNat(c) == IF c = <<>> THEN 0 ELSE Head(c) + 10 * ToNat(Tail(c))

\* the same long division for a divisor d that fits a machine integer
RECURSIVE DivStepNat(_, _, _, _, _)
DivStepNat(n, d, i, q, r) ==
    IF i = 0 THEN [q |-> StripHi(q), r |-> NatDigits(r)]
    ELSE LET cur == 10 * r + n[i]
             q2  == <<cur \div d>> \o q
         IN  IF Len(q2) >= 0 THEN DivStepNat(n, d, i - 1, q2, cur % d)
             ELSE [q |-> <<>>, r |-> <<>>]

BigDivMod(n, d) ==
    IF Len(d) <= 8 THEN DivStepNat(n, ToNat(d), Len(n), <<>>, 0)
    ELSE DivStep(n, d, Len(n), <<>>, <<>>)

\* rounds c * 10^e (plus a nonzero tail below it when sticky) to Prec digits,
\* ROUND_HALF_EVEN
Round(neg, c, e, sticky) ==
    IF Len(c) <= Prec THEN Canon(neg, c, e)
    ELSE LET drop == Len(c) - Prec
             high == SubSeq(c, drop + 1, Len(c))
             top  == c[drop]
             rest == sticky \/ \E i \in 1..(drop - 1) : c[i] # 0
             up   == \/ top > 5
                     \/ top = 5 /\ rest
                     \/ top = 5 /\ ~rest /\ high[1] % 2 = 1
         IN  Canon(neg, IF up THEN BigAdd(high, <<1>>) ELSE high, e + drop)

\* Decimal(n) for an integer n, and Decimal("n.d") given in units of 10^e
DecE(n, e) == Canon(n < 0, NatDigits(IF n < 0 THEN -n ELSE n), e)
Dec(n) == DecE(n, 0)

DIsZero(x) == x.c = <<>>
DNeg(x) == IF DIsZero(x) THEN x ELSE [x EXCEPT !.neg = ~x.neg]

DMul(x, y) ==
    Round(x.neg # y.neg, BigMul(x.c, y.c), x.e + y.e, FALSE)

DAdd(x, y) ==
    IF DIsZero(x) THEN y
    ELSE IF DIsZero(y) THEN x
    ELSE LET e  == IF x.e < y.e THEN x.e ELSE y.e
             xc == Zeros(x.e - e) \o x.c
             yc == Zeros(y.e - e) \o y.c
             m  == BigCmp(xc, yc)
         IN  IF x.neg = y.neg THEN Round(x.neg, BigAdd(xc, yc), e, FALSE)
             ELSE IF m = 0 THEN DZero
             ELSE IF m > 0 THEN Round(x.neg, BigSub(xc, yc), e, FALSE)
             ELSE Round(y.neg, BigSub(yc, xc), e, FALSE)

DSub(x, y) == DAdd(x, DNeg(y))

\* x / y for y # 0: the quotient is taken with more than Prec digits and the
\* remainder decides the rounding
DDiv(x, y) ==
    IF DIsZero(x) THEN DZero
    ELSE LET need  == Prec + 1 + Len(y.c) - Len(x.c)
             shift == IF need > 0 THEN need ELSE 0
             qr    == BigDivMod(Zeros(shift) \o x.c, y.c)
         IN  Round(x.neg # y.neg, qr.q, x.e - y.e - shift, qr.r # <<>>)


(***************************************************************************)
(* Bounds of the model.                                                    *)
(***************************************************************************)
MaxPrice == 3
MaxQty == 2
MaxAmount == 2

\* Decimal("1.0") counted in tenths: allocation fractions are Decimals with
\* one fractional digit, held as their number of tenths
OneInTenths == 10

Ids == {"A", "B"}
Prices == 0..MaxPrice
Amounts == (-1)..MaxAmount
AllocTenths == {0, 4, 6, 10}
FracInputs == (-1)..(OneInTenths + 1)

Frac(n) == DecE(n, -1)

(***************************************************************************)
(* Objects.  Python does not enforce the annotation `stock: Stock`: the    *)
(* Portfolio's methods take any object.  Two classes of object are         *)
(* modelled: "Stock", an instance of the source's class Stock, whose id    *)
(* and price are properties, so that the attribute is the str or the       *)
(* Decimal itself; and "Holding", an object on which the calls the source  *)
(* writes, self.id() and stock.price(), are calls of methods (a subclass   *)
(* of Stock that defines id and price as methods is one).  __hash__ is     *)
(* the source's for both.                                                  *)
(***************************************************************************)
Classes == {"Holding", "Stock"}
Objects == [cls : Classes, id : Ids]
Obj(cls, id) == [cls |-> cls, id |-> id]

Raise(e) == [exc |-> e, callable |-> FALSE, val |-> 0]
Value(v) == [exc |-> "", callable |-> FALSE, val |-> v]
Method(v) == [exc |-> "", callable |-> TRUE, val |-> v]

\* f(): calling a value that is not callable raises TypeError
Call(f) ==
    IF f.exc # "" THEN f
    ELSE IF f.callable THEN Value(f.val)
    ELSE Raise("TypeError")

\* Stock.id, a property: the attribute is the str itself
StockId(o) == Value(o.id)

\* Stock.price, a property: the attribute is the Decimal looked up in the table
StockPrice(o, table) ==
    IF o.id \in DOMAIN table THEN Value(table[o.id]) ELSE Raise("KeyError")

\* a Holding's id and price attributes are bound methods
HoldingId(o) == Method(o.id)
HoldingPrice(o, table) ==
    IF o.id \in DOMAIN table THEN Method(table[o.id]) ELSE Raise("KeyError")

IdAttr(o) == IF o.cls = "Stock" THEN StockId(o) ELSE HoldingId(o)
PriceAttr(o, table) ==
    IF o.cls = "Stock" THEN StockPrice(o, table) ELSE HoldingPrice(o, table)

\* hash(stock): Stock.__hash__ is hash(self.id())
Hash(o) == Call(IdAttr(o))

\* stock.price() as rebalance writes it
PriceCall(o, table) == Call(PriceAttr(o, table))

\* d[k] for a dict d held as a function: the key is hashed, then looked up
DictGet(d, k) ==
    LET h == Hash(k)
    IN  IF h.exc # "" THEN h
        ELSE IF k \in DOMAIN d THEN Value(d[k])
        ELSE Raise("KeyError")

\* d[k] = v: the key is hashed, then bound (a new key is inserted)
DictSet(d, k, v) == [x \in DOMAIN d \cup {k} |-> IF x = k THEN v ELSE d[x]]

\* an insertion-ordered dict is a sequence of [key, val] entries
Keys(items) == [i \in 1..Len(items) |-> items[i].key]
KeySet(items) == {items[i].key : i \in 1..Len(items)}
AsDict(items) ==
    [k \in KeySet(items) |->
        LET i == CHOOSE j \in 1..Len(items) : items[j].key = k IN items[i].val]
Entry(k, v) == [key |-> k, val |-> v]

RECURSIVE SumVals(_, _)
SumVals(items, i) == IF i = 0 THEN 0 ELSE items[i].val + SumVals(items, i - 1)

VARIABLES
    price_table,        \* Stock._price_table: id -> price
    stock_allocation,   \* Portfolio.stock_allocation: entries key -> tenths
    stock_collection,   \* Portfolio.stock_collection: key -> held quantity
    last,               \* the last call: operation, arguments, exception, result
    run                 \* a rebalance call in progress, statement by statement

vars == <<price_table, stock_allocation, stock_collection, last, run>>

Called(op, arg, exc, result) ==
    [op |-> op, arg |-> arg, exc |-> exc, result |-> result]


(***************************************************************************)
(* Constructors.                                                           *)
(***************************************************************************)
\* the type object `str`, as a possible key of a price table
StrType == "<class 'str'>"

\* Stock.__init__(stock_id, price_table), given the table's keys: the test is
\* `str not in price_table.keys()`
StockInitExc(stock_id, keys) ==
    IF StrType \notin keys THEN "KeyError" ELSE ""

\* stock_allocation.values().sum(): dict_values has no attribute sum
ValuesSum(items) == Raise("AttributeError")

\* dict.fromkeys(keys, value=...): fromkeys takes no keyword arguments
FromKeys(keys, v) == Raise("TypeError")

\* Portfolio.__init__(stock_allocation): the exception raised and the fields
\* of self as the statements reached leave them
PortfolioCtor(items, self_alloc, self_coll) ==
    LET total == ValuesSum(items)
        coll  == FromKeys(Keys(items), 0)
        fail(e, a) == [exc |-> e, stock_allocation |-> a,
                       stock_collection |-> self_coll]
    IN  IF \E i \in 1..Len(items) : items[i].val < 0
        THEN fail("ValueError: Allocation percentages must be positive",
                  self_alloc)
        ELSE IF total.exc # "" THEN fail(total.exc, self_alloc)
        ELSE IF total.val # OneInTenths
        THEN fail("ValueError: Allocation percentages must add to 1",
                  self_alloc)
        ELSE IF coll.exc # "" THEN fail(coll.exc, items)
        ELSE [exc |-> "", stock_allocation |-> items,
              stock_collection |-> coll.val]

StockInit(stock_id, keys) ==
    /\ last' = Called("Stock.__init__", [stock_id |-> stock_id, keys |-> keys],
                      StockInitExc(stock_id, keys), <<>>)
    /\ UNCHANGED <<price_table, stock_allocation, stock_collection, run>>

PortfolioInit(items) ==
    LET r == PortfolioCtor(items, stock_allocation, stock_collection)
    IN  /\ last' = Called("Portfolio.__init__", items, r.exc, <<>>)
        /\ stock_allocation' = r.stock_allocation
        /\ stock_collection' = r.stock_collection
        /\ UNCHANGED <<price_table, run>>

(***************************************************************************)
(* Portfolio operations.                                                   *)
(***************************************************************************)
\* add_stock_amount(stock, amount): exception and stock_collection afterwards
AddAmount(coll, stock, amount) ==
    LET cur == DictGet(coll, stock)
    IN  IF amount < 0
        THEN [exc |-> "ValueError: Amount must be greater than zero",
              coll |-> coll]
        ELSE IF cur.exc # "" THEN [exc |-> cur.exc, coll |-> coll]
        ELSE [exc |-> "", coll |-> DictSet(coll, stock, cur.val + amount)]

\* rem_stock_amount without its guard
RemAmountUnguarded(coll, stock, amount) ==
    LET cur == DictGet(coll, stock)
    IN  IF cur.exc # "" THEN [exc |-> cur.exc, coll |-> coll]
        ELSE [exc |-> "", coll |-> DictSet(coll, stock, cur.val - amount)]

\* rem_stock_amount(stock, amount)
RemAmount(coll, stock, amount) ==
    LET cur == DictGet(coll, stock)
    IN  IF cur.exc # "" THEN [exc |-> cur.exc, coll |-> coll]
        ELSE IF amount > cur.val
        THEN [exc |-> "ValueError: Cannot remove more stock than what we have",
              coll |-> coll]
        ELSE [exc |-> "", coll |-> DictSet(coll, stock, cur.val - amount)]

\* set_stock_to_zero(stock)
SetToZero(coll, stock) ==
    LET h == Hash(stock)
    IN  IF h.exc # "" THEN [exc |-> h.exc, coll |-> coll]
        ELSE [exc |-> "", coll |-> DictSet(coll, stock, 0)]

\* the held quantities as the Decimals they are
Quantities(coll) == [k \in DOMAIN coll |-> Dec(coll[k])]

\* stock.price() * self.stock_collection[stock], one term of the sum
SumTerm(stock, coll, table) ==
    LET p == PriceCall(stock, table)
        q == DictGet(coll, stock)
    IN  IF p.exc # "" THEN [exc |-> p.exc, val |-> DZero]
        ELSE IF q.exc # "" THEN [exc |-> q.exc, val |-> DZero]
        ELSE [exc |-> "", val |-> DMul(Dec(p.val), q.val)]

\* sum(stock.price() * self.stock_collection[stock] for stock in stocks),
\* from the i-th key on, acc being the sum so far
RECURSIVE TotalFrom(_, _, _, _, _)
TotalFrom(keys, coll, table, i, acc) ==
    IF i > Len(keys) THEN [exc |-> "", val |-> acc]
    ELSE LET t == SumTerm(keys[i], coll, table)
         IN  IF t.exc # "" THEN [exc |-> t.exc, val |-> acc]
             ELSE TotalFrom(keys, coll, table, i + 1, DAdd(acc, t.val))

\* a division that yields 0 for a zero divisor instead of raising
DivideOrZero(x, y) ==
    IF DIsZero(y) THEN [exc |-> "", val |-> DZero]
    ELSE [exc |-> "", val |-> DDiv(x, y)]

\* new_allocation / price: Decimal division traps a zero divisor
Divide(x, y) ==
    IF DIsZero(y)
    THEN IF DIsZero(x) THEN [exc |-> "InvalidOperation", val |-> DZero]
         ELSE [exc |-> "DivisionByZero", val |-> DZero]
    ELSE [exc |-> "", val |-> DDiv(x, y)]

\* one pass of the loop body of rebalance for `stock`: the exception raised,
\* or the change computed for it
ChangeFor(stock, alloc, coll, table, total) ==
    LET a == DictGet(alloc, stock)
        p == PriceCall(stock, table)
        q == DictGet(coll, stock)
        new_allocation == DMul(total, Frac(a.val))
        rebalanced_amount == Divide(new_allocation, Dec(p.val))
    IN  IF a.exc # "" THEN [exc |-> a.exc, val |-> DZero]
        ELSE IF p.exc # "" THEN [exc |-> p.exc, val |-> DZero]
        ELSE IF rebalanced_amount.exc # "" THEN rebalanced_amount
        ELSE IF q.exc # "" THEN [exc |-> q.exc, val |-> DZero]
        ELSE [exc |-> "", val |-> DSub(rebalanced_amount.val, q.val)]

\* the loop of rebalance from the i-th key on
RECURSIVE ChangesFrom(_, _, _, _, _, _, _)
ChangesFrom(keys, alloc, coll, table, total, i, changes) ==
    IF i > Len(keys) THEN [exc |-> "", changes |-> changes]
    ELSE LET c == ChangeFor(keys[i], alloc, coll, table, total)
         IN  IF c.exc # "" THEN [exc |-> c.exc, changes |-> <<>>]
             ELSE ChangesFrom(keys, alloc, coll, table, total, i + 1,
                              changes \o <<Entry(keys[i], c.val)>>)

\* rebalance() on a Portfolio with the given fields (the quantities as
\* Decimals) and price table
RebalanceOf(items, coll, table) ==
    LET stocks == Keys(items)
        total_asset_value == TotalFrom(stocks, coll, table, 1, DZero)
    IN  IF total_asset_value.exc # ""
        THEN [exc |-> total_asset_value.exc, changes |-> <<>>]
        ELSE ChangesFrom(stocks, AsDict(items), coll, table,
                         total_asset_value.val, 1, <<>>)

AddStockAmount(stock, amount) ==
    LET r == AddAmount(stock_collection, stock, amount)
    IN  /\ \A k \in DOMAIN r.coll : r.coll[k] <= MaxQty
        /\ stock_collection' = r.coll
        /\ last' = Called("add_stock_amount",
                          [stock |-> stock, amount |-> amount], r.exc, <<>>)
        /\ UNCHANGED <<price_table, stock_allocation, run>>

RemStockAmount(stock, amount) ==
    LET r == RemAmount(stock_collection, stock, amount)
    IN  /\ \A k \in DOMAIN r.coll : r.coll[k] <= MaxQty
        /\ stock_collection' = r.coll
        /\ last' = Called("rem_stock_amount",
                          [stock |-> stock, amount |-> amount], r.exc, <<>>)
        /\ UNCHANGED <<price_table, stock_allocation, run>>

SetStockToZero(stock) ==
    LET r == SetToZero(stock_collection, stock)
    IN  /\ stock_collection' = r.coll
        /\ last' = Called("set_stock_to_zero", [stock |-> stock], r.exc, <<>>)
        /\ UNCHANGED <<price_table, stock_allocation, run>>

Rebalance ==
    LET r == RebalanceOf(stock_allocation, Quantities(stock_collection),
                         price_table)
    IN  /\ last' = Called("rebalance", <<>>, r.exc, r.changes)
        /\ UNCHANGED <<price_table, stock_allocation, stock_collection, run>>

\* the price source publishes a new price between two calls
SetPrice(id, p) ==
    /\ price_table[id] # p
    /\ price_table' = [price_table EXCEPT ![id] = p]
    /\ last' = Called("set_price", [id |-> id, price |-> p], "", <<>>)
    /\ UNCHANGED <<stock_allocation, stock_collection, run>>

(***************************************************************************)
(* Specifications.                                                         *)
(***************************************************************************)
NoCall == Called("none", <<>>, "", <<>>)
Idle == [pc |-> "idle"]

\* the allocations the operations are exercised on: one or two holdings of
\* one class, fractions adding to 1
Allocations ==
    {<<Entry(Obj(c, "A"), OneInTenths)>> : c \in Classes}
    \cup {<<Entry(Obj(c, "A"), a), Entry(Obj(c, "B"), OneInTenths - a)>> :
            c \in Classes, a \in AllocTenths}

\* Portfolio.__init__ raises on every input, so the operations are run on the
\* object its statements are written to leave: a valid allocation and a zero
\* quantity for each of its keys
Init ==
    /\ price_table = [i \in Ids |-> 1]
    /\ stock_allocation \in Allocations
    /\ stock_collection = [k \in KeySet(stock_allocation) |-> 0]
    /\ last = NoCall
    /\ run = Idle

\* the objects a run passes to the operations are of the class of the
\* Portfolio's keys
Callers == {o \in Objects : o.cls = stock_allocation[1].key.cls}

Next ==
    \/ \E stock \in Callers, amount \in Amounts : AddStockAmount(stock, amount)
    \/ \E stock \in Callers, amount \in Amounts : RemStockAmount(stock, amount)
    \/ \E stock \in Callers : SetStockToZero(stock)
    \/ Rebalance
    \/ \E id \in Ids, p \in Prices : SetPrice(id, p)

Spec == Init /\ [][Next]_vars

\* the constructors, called with every input of the bounded sets
InitCtor ==
    /\ price_table = [i \in Ids |-> 1]
    /\ stock_allocation = <<>>
    /\ stock_collection = <<>>
    /\ last = NoCall
    /\ run = Idle

AllocInputs ==
    {<<>>}
    \cup {<<Entry(Obj("Holding", i), f)>> : i \in Ids, f \in FracInputs}
    \cup {<<Entry(Obj("Holding", "A"), f), Entry(Obj("Holding", "B"), g)>> :
            f \in FracInputs, g \in FracInputs}

NextCtor ==
    \/ \E stock_id \in Ids, keys \in SUBSET (Ids \cup {StrType}) :
          StockInit(stock_id, keys)
    \/ \E items \in AllocInputs : PortfolioInit(items)

SpecCtor == InitCtor /\ [][NextCtor]_vars


(***************************************************************************)
(* rebalance statement by statement, with the price source free to publish *)
(* a price between two statements.  run.reads counts the calls of          *)
(* stock.price() per key; run.sum_price and run.div_price are the prices   *)
(* those calls returned in the sum and in the division.                    *)
(***************************************************************************)
Running(pc, i, total, changes, reads, sum_price, div_price, exc) ==
    [pc |-> pc, i |-> i, total |-> total, changes |-> changes, reads |-> reads,
     sum_price |-> sum_price, div_price |-> div_price, exc |-> exc]

\* stocks = self.stock_allocation.keys(), and the generator is started (last
\* keeps no record of the call before)
RebalanceCall ==
    /\ run.pc = "idle"
    /\ run' = Running("sum", 1, DZero, <<>>,
                      [k \in KeySet(stock_allocation) |-> 0],
                      [k \in KeySet(stock_allocation) |-> 0],
                      [k \in KeySet(stock_allocation) |-> 0], "")
    /\ last' = NoCall
    /\ UNCHANGED <<price_table, stock_allocation, stock_collection>>

\* one term of the sum; after the last one the loop starts
SumStep ==
    /\ run.pc = "sum"
    /\ IF run.i > Len(stock_allocation)
       THEN run' = [run EXCEPT !.pc = "loop", !.i = 1]
       ELSE LET stock == stock_allocation[run.i].key
                t == SumTerm(stock, Quantities(stock_collection), price_table)
                p == PriceCall(stock, price_table)
                seen == [run EXCEPT !.reads[stock] = @ + 1,
                                    !.sum_price[stock] = p.val]
            IN  IF t.exc # ""
                THEN run' = [seen EXCEPT !.pc = "done", !.exc = t.exc]
                ELSE run' = [seen EXCEPT !.i = @ + 1,
                                         !.total = DAdd(@, t.val)]
    /\ UNCHANGED <<price_table, stock_allocation, stock_collection, last>>

\* one pass of the loop body; after the last one the call is over
LoopStep ==
    /\ run.pc = "loop"
    /\ IF run.i > Len(stock_allocation)
       THEN run' = [run EXCEPT !.pc = "done"]
       ELSE LET stock == stock_allocation[run.i].key
                c == ChangeFor(stock, AsDict(stock_allocation),
                               Quantities(stock_collection), price_table,
                               run.total)
                p == PriceCall(stock, price_table)
                seen == [run EXCEPT !.reads[stock] = @ + 1,
                                    !.div_price[stock] = p.val]
            IN  IF c.exc # ""
                THEN run' = [seen EXCEPT !.pc = "done", !.exc = c.exc,
                                         !.changes = <<>>]
                ELSE run' = [seen EXCEPT !.i = @ + 1,
                                         !.changes = @ \o <<Entry(stock, c.val)>>]
    /\ UNCHANGED <<price_table, stock_allocation, stock_collection, last>>

\* return rebalance_changes, or the exception propagates
RebalanceReturn ==
    /\ run.pc = "done"
    /\ last' = Called("rebalance", <<>>, run.exc, run.changes)
    /\ run' = Idle
    /\ UNCHANGED <<price_table, stock_allocation, stock_collection>>

\* the price source publishes a new price, also while rebalance is running
PublishPrice(id, p) ==
    /\ run.pc # "done"
    /\ price_table[id] # p
    /\ price_table' = [price_table EXCEPT ![id] = p]
    /\ last' = IF run.pc = "idle"
               THEN Called("set_price", [id |-> id, price |-> p], "", <<>>)
               ELSE last
    /\ UNCHANGED <<stock_allocation, stock_collection, run>>

\* a Portfolio that holds one unit of each of its keys
InitConc ==
    /\ price_table = [i \in Ids |-> 1]
    /\ stock_allocation \in Allocations
    /\ stock_collection = [k \in KeySet(stock_allocation) |-> 1]
    /\ last = NoCall
    /\ run = Idle

NextConc ==
    \/ RebalanceCall
    \/ SumStep
    \/ LoopStep
    \/ RebalanceReturn
    \/ \E id \in Ids, p \in Prices : PublishPrice(id, p)

SpecConc == InitConc /\ [][NextConc]_vars


(***************************************************************************)
(* The claims.                                                             *)
(***************************************************************************)
Tracked == KeySet(stock_allocation)
PriceOf(k) == price_table[k.id]
NegativeMsg == "ValueError: Allocation percentages must be positive"
SumMsg == "ValueError: Allocation percentages must add to 1"
InsufficientMsg == "ValueError: Cannot remove more stock than what we have"

\* C1: Portfolio construction succeeds exactly when every fraction is >= 0
\* and the fractions add to 1; it fails with the negative error when some
\* fraction is negative and with the sum error when none is negative but the
\* sum is not 1; on success the allocation is stored and every key of it
\* holds quantity 0.
C1_Construction ==
    last.op = "Portfolio.__init__" =>
        LET items == last.arg
            negative == \E i \in 1..Len(items) : items[i].val < 0
            adds == SumVals(items, Len(items)) = OneInTenths
        IN  /\ last.exc = "" <=> (~negative /\ adds)
            /\ negative => last.exc = NegativeMsg
            /\ (~negative /\ ~adds) => last.exc = SumMsg
            /\ last.exc = "" =>
                  /\ stock_allocation = items
                  /\ DOMAIN stock_collection = KeySet(items)
                  /\ \A k \in KeySet(items) : stock_collection[k] = 0

\* C3: Stock construction with identity i and a price table fails with
\* KeyError exactly when i is not a key of the table.
C3_StockInit ==
    last.op = "Stock.__init__" =>
        (last.exc = "KeyError" <=> last.arg.stock_id \notin last.arg.keys)

\* the change the computation of section II gives for entry i of the
\* allocation: (V * A[h]) / P(h) - Q[h], in Decimal arithmetic
RECURSIVE ExpectedTotal(_)
ExpectedTotal(i) ==
    IF i = 0 THEN DZero
    ELSE LET h == stock_allocation[i].key
         IN  DAdd(ExpectedTotal(i - 1),
                  DMul(Dec(PriceOf(h)), Dec(stock_collection[h])))
ExpectedChange(i) ==
    LET h == stock_allocation[i].key
        V == ExpectedTotal(Len(stock_allocation))
    IN  DSub(DDiv(DMul(V, Frac(stock_allocation[i].val)), Dec(PriceOf(h))),
             Dec(stock_collection[h]))

C4_QuantitiesNonNegative ==
    \A k \in DOMAIN stock_collection : stock_collection[k] >= 0

\* a removal of a negative amount has been carried out
C4_Witness ==
    /\ last.op = "rem_stock_amount"
    /\ last.exc = ""
    /\ last.arg.amount < 0
    /\ stock_collection[last.arg.stock] > 0

\* C5: rem_stock_amount(h, a) on a tracked holding with quantity q succeeds
\* exactly when 0 <= a <= q and then leaves q - a; it fails with the
\* insufficient-holding error when a > q and with an error when a < 0, and a
\* failing call leaves the quantity q.
C5_Remove ==
    [][(last'.op = "rem_stock_amount" /\ last'.arg.stock \in Tracked) =>
        LET h == last'.arg.stock
            a == last'.arg.amount
            q == stock_collection[h]
        IN  /\ last'.exc = "" <=> (0 <= a /\ a <= q)
            /\ last'.exc = "" => stock_collection'[h] = q - a
            /\ a > q => last'.exc = InsufficientMsg
            /\ last'.exc # "" => stock_collection'[h] = q]_vars

\* C6: the holdings that have a held quantity are exactly the holdings of the
\* allocation, and add, remove and zero called with a holding outside the
\* allocation fail.
C6_KeysMatch ==
    /\ DOMAIN stock_collection = Tracked
    /\ (/\ last.op \in {"add_stock_amount", "rem_stock_amount",
                        "set_stock_to_zero"}
        /\ last.arg.stock \notin Tracked) => last.exc # ""

\* C7: when a rebalance call ends with a result, each tracked holding's price
\* has been read exactly once, so the price in the total and the price in
\* the division are the same reading.
C7_OnePriceRead ==
    (run.pc = "done" /\ run.exc = "") =>
        \A k \in Tracked :
            /\ run.reads[k] = 1
            /\ run.sum_price[k] = run.div_price[k]

\* the calls the design lists as failing
MustFail(call) ==
    \/ /\ call.op = "add_stock_amount"
       /\ call.arg.amount < 0 \/ call.arg.stock \notin Tracked
    \/ /\ call.op = "rem_stock_amount"
       /\ \/ call.arg.stock \notin Tracked
          \/ call.arg.amount < 0
          \/ call.arg.amount > stock_collection[call.arg.stock]
    \/ /\ call.op = "set_stock_to_zero"
       /\ call.arg.stock \notin Tracked
    \/ /\ call.op = "rebalance"
       /\ \E k \in Tracked : PriceOf(k) = 0

\* C8: a call of add (negative amount, untracked holding), remove (amount
\* above the quantity, negative amount, untracked holding), zero (untracked
\* holding) or rebalance (zero price) leaves the held quantities and the
\* allocation as they were.
C8_FailureLeavesState ==
    [][MustFail(last') =>
        /\ stock_collection' = stock_collection
        /\ stock_allocation' = stock_allocation]_vars

\* C9: rebalance() ends in an error, with no result, whenever some tracked
\* holding has price 0; when price() itself can be called, the error is the
\* division's.
C9_ZeroPriceRaises ==
    (last.op = "rebalance" /\ \E k \in Tracked : PriceOf(k) = 0) =>
        /\ last.exc # ""
        /\ last.result = <<>>
        /\ (\A k \in Tracked : k.cls = "Holding") =>
              last.exc \in {"DivisionByZero", "InvalidOperation"}

\* rebalance has divided a zero target value by a zero price
C9_Witness ==
    /\ last.op = "rebalance"
    /\ last.exc = "InvalidOperation"
    /\ \E i \in 1..Len(stock_allocation) :
          /\ PriceOf(stock_allocation[i].key) = 0
          /\ stock_allocation[i].val = 0

\* the quantities after the changes of the last rebalance are applied
Applied ==
    [k \in DOMAIN stock_collection |->
        IF \E i \in 1..Len(last.result) : last.result[i].key = k
        THEN LET i == CHOOSE j \in 1..Len(last.result) : last.result[j].key = k
             IN  DAdd(Dec(stock_collection[k]), last.result[i].val)
        ELSE Dec(stock_collection[k])]

\* C10: when rebalance() returns changes, a rebalance of the quantities with
\* those changes applied, at the same prices, returns 0 for every tracked
\* holding.
C10_ZeroDelta ==
    (last.op = "rebalance" /\ last.exc = "") =>
        LET again == RebalanceOf(stock_allocation, Applied, price_table)
        IN  /\ again.exc = ""
            /\ \A i \in 1..Len(again.changes) : DIsZero(again.changes[i].val)

====
